---- MODULE Spec2Model ----
(***************************************************************************)
(* CodeWeaver: the Express server (server/index.js), the three-stage       *)
(* agent (server/aiAgent.js), the App client and the LivePreview           *)
(* component, as one state machine.                                        *)
(*                                                                         *)
(* JS strings that the code only stores and compares are TLA+ strings.     *)
(* JS strings that the code searches (String.includes, RegExp) are         *)
(* sequences: source texts are sequences of characters, error messages     *)
(* are sequences of fragments.  JS null and undefined are both Null.       *)
(***************************************************************************)
EXTENDS Integers, Sequences, FiniteSets, TLC

Null == "null"

\* ------------------------------------------------------------------ bounds
\* POST /api/generate requests issued in one behaviour of Spec.
MaxCalls == 2
\* POST /api/generate requests issued in one behaviour of SpecLong.
MaxLongCalls == 22
\* Messages the App sends, and rollbacks it performs, in one behaviour of SpecApp.
MaxAppCalls == 2
MaxRollbacks == 1
\* POST /api/generate requests issued in one behaviour of SpecRead.
MaxReadCalls == 21

\* ------------------------------------------------------- program constants
\* server/index.js:62  if (versions.length > 20) versions.shift()
MAX_VERSIONS == 20

\* aiAgent.js:35-41
MODELS_TO_TRY ==
  << "gemini-2.5-flash", "gemini-2.5-pro", "gemini-2.5-flash-lite",
     "gemini-2.0-flash", "gemini-2.0-flash-lite" >>

\* aiAgent.js:54-87, Object.keys(COMPONENT_LIBRARY), in insertion order
allowedComponents ==
  << <<"B","u","t","t","o","n">>, <<"C","a","r","d">>, <<"I","n","p","u","t">>,
     <<"T","a","b","l","e">>, <<"M","o","d","a","l">>,
     <<"S","i","d","e","b","a","r">>, <<"N","a","v","b","a","r">>,
     <<"C","h","a","r","t">> >>

\* ------------------------------------------------------------ source texts
\* The code strings of the model.  A code is named in the state; SourceText
\* is the string itself, character by character.
\*   CARD_JSX      function G(){return <Card/>}
\*   LOGINBOX_JSX  function G(){return <LoginBox/>}
\*   CARD_CE       function G(){return React.createElement(Card)}
\*   WINDOW_CE     function G(){window.t=1;return null}
\*   THROW_CE      function G(){throw 1}
\*   BARE_JSX      <Card/>
\*   ""            the empty string
\* and, as bodies of POST /api/validate only,
\*   CARD2_JSX     function G(){return <Card2/>}
\*   NESTED_JSX    <Card><LoginBox/><Card/><LoginBox/></Card>
Codes == {"CARD_JSX", "LOGINBOX_JSX", "CARD_CE", "WINDOW_CE", "THROW_CE", "BARE_JSX", ""}

SourceText(c) ==
  CASE c = "CARD_JSX" ->
         <<"f","u","n","c","t","i","o","n"," ","G","(",")","{","r","e","t","u","r","n"," ","<","C","a","r","d","/",">","}">>
    [] c = "LOGINBOX_JSX" ->
         <<"f","u","n","c","t","i","o","n"," ","G","(",")","{","r","e","t","u","r","n"," ","<","L","o","g","i","n","B","o","x","/",">","}">>
    [] c = "CARD_CE" ->
         <<"f","u","n","c","t","i","o","n"," ","G","(",")","{","r","e","t","u","r","n"," ","R","e","a","c","t",".","c","r","e","a","t","e","E","l","e","m","e","n","t","(","C","a","r","d",")","}">>
    [] c = "WINDOW_CE" ->
         <<"f","u","n","c","t","i","o","n"," ","G","(",")","{","w","i","n","d","o","w",".","t","=","1",";","r","e","t","u","r","n"," ","n","u","l","l","}">>
    [] c = "THROW_CE" ->
         <<"f","u","n","c","t","i","o","n"," ","G","(",")","{","t","h","r","o","w"," ","1","}">>
    [] c = "BARE_JSX" -> <<"<","C","a","r","d","/",">">>
    [] c = "CARD2_JSX" ->
         <<"f","u","n","c","t","i","o","n"," ","G","(",")","{","r","e","t","u","r","n"," ","<","C","a","r","d","2","/",">","}">>
    [] c = "NESTED_JSX" ->
         <<"<","C","a","r","d",">","<","L","o","g","i","n","B","o","x","/",">","<","C","a","r","d","/",">",
           "<","L","o","g","i","n","B","o","x","/",">","<","/","C","a","r","d",">">>
    [] OTHER -> <<>>

\* --------------------------------------------------- validateComponents
UpperCase ==
  {"A","B","C","D","E","F","G","H","I","J","K","L","M",
   "N","O","P","Q","R","S","T","U","V","W","X","Y","Z"}
LowerCase ==
  {"a","b","c","d","e","f","g","h","i","j","k","l","m",
   "n","o","p","q","r","s","t","u","v","w","x","y","z"}

\* [a-zA-Z]* starting at position i of text t
RECURSIVE Letters(_, _)
Letters(t, i) ==
  IF i <= Len(t) /\ t[i] \in (UpperCase \cup LowerCase)
  THEN <<t[i]>> \o Letters(t, i + 1)
  ELSE <<>>

\* [...code.matchAll(/<([A-Z][a-zA-Z]*)/g)].map(match => match[1]), from i on
RECURSIVE matchAll(_, _)
matchAll(t, i) ==
  IF i > Len(t) THEN <<>>
  ELSE IF t[i] = "<" /\ i + 1 <= Len(t) /\ t[i + 1] \in UpperCase
       THEN LET name == Letters(t, i + 1)
            IN  <<name>> \o matchAll(t, i + 1 + Len(name))
       ELSE matchAll(t, i + 1)

includes(s, x) == \E i \in 1..Len(s) : s[i] = x

\* [...new Set(s)]: first occurrences, in order
RECURSIVE Dedup(_)
Dedup(s) ==
  IF s = <<>> THEN <<>>
  ELSE LET front == Dedup(SubSeq(s, 1, Len(s) - 1))
           last  == s[Len(s)]
       IN  IF includes(front, last) THEN front ELSE Append(front, last)

validateComponentsAllowAll(code) ==
  LET usedComponents == matchAll(SourceText(code), 1)
  IN  [ valid             |-> TRUE,
        allowedComponents |-> allowedComponents,
        usedComponents    |-> Dedup(usedComponents),
        invalidComponents |-> <<>> ]

validateComponents(code) ==
  LET usedComponents == matchAll(SourceText(code), 1)
      NotAllowed(comp) == ~includes(allowedComponents, comp)
      invalid == SelectSeq(usedComponents, NotAllowed)
  IN  [ valid             |-> (Len(invalid) = 0),
        allowedComponents |-> allowedComponents,
        usedComponents    |-> Dedup(usedComponents),
        invalidComponents |-> invalid ]


\* ------------------------------------------------------------- the state
VARIABLES
  versionHistory,  \* index.js:13   Map sessionId -> array of version entries
  workingModel,    \* aiAgent.js:48 name of the cached model, or Null
  calls,           \* the POST /api/generate requests received so far, in order
  clock,           \* the server's Date, as a counter
  \* App (the client), useState hooks
  messages,        \* chat messages
  generatedCode,   \* the code shown in the editor and passed to LivePreview
  isLoading,       \* a generate request is in flight
  versions,        \* the summaries last loaded from GET /api/history
  currentVersion,  \* the version badge, or Null
  \* LivePreview
  Component,       \* useState: the code whose compiled function is kept, or Null
  error,           \* useState: the build error message, or Null
  effectPending,   \* the useEffect for the current code has not run yet
  boundary,        \* ErrorBoundary: "unmounted", "ok" or "hasError"
  evaluated,       \* the code last handed to new Function, or Null
  reached,         \* the scopes the generated function's free names last resolved in
  \* a client of the read-only routes
  reply            \* the request just answered and its response, or NoReply

serverVars == <<versionHistory, workingModel, calls, clock>>
appVars == <<messages, generatedCode, isLoading, versions, currentVersion>>
previewVars == <<Component, error, effectPending, boundary, evaluated, reached>>
\* everything outside the server
clientVars == <<appVars, previewVars, reply>>
vars == <<serverVars, appVars, previewVars, reply>>

NoResponse == [status |-> 0]
NoReply == [route |-> "none"]

Falsy(v) == v = Null \/ v = ""

\* ------------------------------------------------------- error messages
FetchFailed   == <<"fetch failed">>
QuotaError    == <<"[429 Too Many Requests] You exceeded your current ", "quota">>
NotFoundError == <<"[", "404", " Not Found] model is not found">>
KeyError      == <<"API key", " not valid. Please pass a valid ", "API key">>
\* the message of the SyntaxError JSON.parse throws
JSONSyntaxError == <<"Unexpected token S in JSON at position 0">>

\* aiAgent.js:119
NoWorkingModel ==
  <<"No working Gemini model found. Please check your ", "API key",
    " and available models.">>

\* aiAgent.js:178, 236, 267: new Error(`... failed: ${error.message}`)
StagePrefix(stage) ==
  CASE stage = "planner"   -> <<"Planning failed: ">>
    [] stage = "generator" -> <<"Code generation failed: ">>
    [] stage = "explainer" -> <<"Explanation failed: ">>

\* aiAgent.js:309-316
errorMessage(message) ==
  IF includes(message, "API key")
  THEN <<"Invalid ", "API key", ". Please check your Gemini ", "API key",
         " in server/aiAgent.js">>
  ELSE IF includes(message, "404")
  THEN <<"Model not found. The Gemini API models may have changed. Check available models at: https://ai.google.dev/models">>
  ELSE IF includes(message, "quota")
  THEN <<"API ", "quota", " exceeded. Please check your Gemini API usage limits.">>
  ELSE message

\* ------------------------------------------------- what the model answers
\* The errors model.generateContent throws in the model.
LLMErrors == {FetchFailed, QuotaError}

\* The planner's answers: texts that JSON.parse accepts, and one it rejects.
PlannerTexts == {"{plan A}", "Sorry"}

\* aiAgent.js:175 JSON.parse(jsonText): the plan, or Null when it throws
JSONparse(text) ==
  CASE text = "{plan A}" -> "planA"
    [] OTHER -> Null

\* The generator's answers in Spec (already trimmed, no code fence).
GeneratorTexts == {"CARD_JSX", "LOGINBOX_JSX"}

ExplainerTexts == {"I've created a card."}

\* ------------------------------------------------------------ generateUI
NewCall(userIntent, existingCode, sessionId) ==
  [ userIntent   |-> userIntent,
    existingCode |-> existingCode,
    sessionId    |-> sessionId,
    pc           |-> "route",
    probe        |-> 0,
    plan         |-> Null,
    code         |-> Null,
    explanation  |-> Null,
    active       |-> {},
    invoked      |-> <<>>,
    result       |-> NoResponse,
    response     |-> NoResponse ]

\* A stage function is called: plannerAgent(userIntent, existingCode),
\* generatorAgent(plan, existingCode), explainerAgent(plan, code, userIntent).
\* Its first statement awaits getWorkingModel(), which probes the models
\* (probe = 1..5) unless one is cached (probe = 0: the stage's own
\* generateContent call is in flight).
EnterStage(call, stage, plan, code) ==
  [ call EXCEPT
      !.pc      = stage,
      !.active  = @ \cup {stage},
      !.invoked = Append(@, [stage |-> stage, plan |-> plan, code |-> code,
                             userIntent |-> call.userIntent,
                             existingCode |-> call.existingCode]),
      !.probe   = IF workingModel = Null THEN 1 ELSE 0 ]

LeaveStage(call, stage) == [call EXCEPT !.active = @ \ {stage}]

\* aiAgent.js:305-323, the catch of generateUI
generateUICatch(call, message) ==
  [ call EXCEPT
      !.pc     = "done",
      !.result = [ success   |-> FALSE,
                   error     |-> errorMessage(message),
                   fullError |-> message ] ]

\* index.js:32-34
FailureResponse(result) == [status |-> 500, error |-> result.error]

\* index.js:44-65 with the pushed entry dropped in place of the oldest
StoreVersionDropNewest(history, sessionId, userIntent, result, validation) ==
  IF Falsy(sessionId) THEN history
  ELSE LET sessionVersions == IF sessionId \in DOMAIN history
                       THEN history[sessionId] ELSE <<>>
           pushed == Append(sessionVersions,
                       [ version     |-> Len(sessionVersions) + 1,
                         userIntent  |-> userIntent,
                         code        |-> result.code,
                         explanation |-> result.explanation,
                         plan        |-> result.plan,
                         timestamp   |-> result.timestamp,
                         validation  |-> validation ])
           kept == IF Len(pushed) > MAX_VERSIONS THEN SubSeq(pushed, 1, MAX_VERSIONS) ELSE pushed
       IN  [ s \in DOMAIN history \cup {sessionId} |->
               IF s = sessionId THEN kept ELSE history[s] ]

\* index.js:44-65
StoreVersion(history, sessionId, userIntent, result, validation) ==
  IF Falsy(sessionId) THEN history
  ELSE LET sessionVersions == IF sessionId \in DOMAIN history
                       THEN history[sessionId] ELSE <<>>
           pushed == Append(sessionVersions,
                       [ version     |-> Len(sessionVersions) + 1,
                         userIntent  |-> userIntent,
                         code        |-> result.code,
                         explanation |-> result.explanation,
                         plan        |-> result.plan,
                         timestamp   |-> result.timestamp,
                         validation  |-> validation ])
           kept == IF Len(pushed) > MAX_VERSIONS THEN Tail(pushed) ELSE pushed
       IN  [ s \in DOMAIN history \cup {sessionId} |->
               IF s = sessionId THEN kept ELSE history[s] ]

\* index.js:70  versionHistory.get(sessionId)?.length || 1
ResponseVersion(history, sessionId) ==
  IF sessionId \in DOMAIN history /\ Len(history[sessionId]) # 0
  THEN Len(history[sessionId]) ELSE 1

\* index.js:67-71
SuccessResponse(result, validation, version) ==
  [ status      |-> 200,
    success     |-> TRUE,
    plan        |-> result.plan,
    code        |-> result.code,
    explanation |-> result.explanation,
    timestamp   |-> result.timestamp,
    modelUsed   |-> result.modelUsed,
    validation  |-> validation,
    version     |-> version ]


\* ------------------------------------------------------ the server's steps
Stages == {"planner", "generator", "explainer"}

\* index.js:23  if (!userIntent)
userIntentMissingOnlyUndefined(userIntent) == userIntent = Null

userIntentMissing(userIntent) == Falsy(userIntent)

\* index.js:24
BadRequest == [status |-> 400, error |-> <<"userIntent is required">>]

\* aiAgent.js:282-287: the plan is awaited, then handed to generatorAgent
AfterPlannerNoAwait(call, plan) ==
  EnterStage(EnterStage([call EXCEPT !.plan = plan], "generator", Null, Null),
             "explainer", Null, Null)

AfterPlanner(call, plan) ==
  EnterStage(LeaveStage([call EXCEPT !.plan = plan], "planner"),
             "generator", plan, Null)

\* aiAgent.js:287-292: the code is awaited, then handed to explainerAgent
AfterGenerator(call, code) ==
  EnterStage(LeaveStage([call EXCEPT !.code = code], "generator"),
             "explainer", call.plan, code)

\* aiAgent.js:292-304: the explanation is awaited and generateUI returns
AfterExplainer(call, explanation) ==
  [ LeaveStage(call, "explainer") EXCEPT
      !.pc          = "done",
      !.explanation = explanation,
      !.result      = [ success     |-> TRUE,
                        plan        |-> call.plan,
                        code        |-> call.code,
                        explanation |-> explanation,
                        timestamp   |-> clock,
                        modelUsed   |-> workingModel ] ]

\* A stage fails once and the planner is started again.
StageThrowsRetry(call, stage, message) ==
  EnterStage(LeaveStage(call, stage), "planner", Null, Null)

\* A stage throws `message`: generateUI's catch builds the failure result
\* and the route answers 500 (index.js:32-34).
StageThrows(call, stage, message) ==
  LET failed == generateUICatch(LeaveStage(call, stage), message)
  IN  [failed EXCEPT !.response = FailureResponse(failed.result)]

\* POST /api/generate arrives (index.js:19-30); generateUI runs up to the
\* first await of plannerAgent.
PostGenerate(userIntent, existingCode, sessionId) ==
  /\ LET call == NewCall(userIntent, existingCode, sessionId)
     IN  calls' = Append(calls,
                    IF userIntentMissing(userIntent)
                    THEN [call EXCEPT !.pc = "done", !.response = BadRequest]
                    ELSE EnterStage(call, "planner", Null, Null))
  /\ UNCHANGED <<versionHistory, workingModel, clock>>

Probing(id) ==
  /\ id \in 1..Len(calls)
  /\ calls[id].pc \in Stages
  /\ calls[id].probe >= 1

\* aiAgent.js:99-110: the test request of model number probe succeeds
ProbeOk(id) ==
  /\ Probing(id)
  /\ workingModel' = MODELS_TO_TRY[calls[id].probe]
  /\ calls' = [calls EXCEPT ![id].probe = 0]
  /\ UNCHANGED <<versionHistory, clock>>

\* aiAgent.js:112-119: the test request fails; the next model is tried, and
\* after the last one getWorkingModel throws (outside the stage's try)
ProbeFail(id) ==
  /\ Probing(id)
  /\ calls' = [calls EXCEPT ![id] =
                 IF calls[id].probe < Len(MODELS_TO_TRY)
                 THEN [@ EXCEPT !.probe = @ + 1]
                 ELSE StageThrows(@, @.pc, NoWorkingModel)]
  /\ UNCHANGED <<versionHistory, workingModel, clock>>

Awaiting(id, stage) ==
  /\ id \in 1..Len(calls)
  /\ calls[id].pc = stage
  /\ calls[id].probe = 0

\* generateContent of a stage throws (aiAgent.js:176-179, 234-237, 265-268)
StageError(id, detail) ==
  /\ \E stage \in Stages :
       /\ Awaiting(id, stage)
       /\ calls' = [calls EXCEPT ![id] =
                      StageThrows(@, stage, StagePrefix(stage) \o detail)]
  /\ UNCHANGED <<versionHistory, workingModel, clock>>

\* aiAgent.js:163-175
PlannerReturn(id, text) ==
  /\ Awaiting(id, "planner")
  /\ calls' = [calls EXCEPT ![id] =
                 IF JSONparse(text) = Null
                 THEN StageThrows(@, "planner",
                                  StagePrefix("planner") \o JSONSyntaxError)
                 ELSE AfterPlanner(@, JSONparse(text))]
  /\ UNCHANGED <<versionHistory, workingModel, clock>>

\* aiAgent.js:224-233
GeneratorReturn(id, text) ==
  /\ Awaiting(id, "generator")
  /\ calls' = [calls EXCEPT ![id] = AfterGenerator(@, text)]
  /\ UNCHANGED <<versionHistory, workingModel, clock>>

\* aiAgent.js:262-264 and 292-304, then index.js:36-71
ExplainerReturn(id, text) ==
  /\ Awaiting(id, "explainer")
  /\ LET call       == AfterExplainer(calls[id], text)
         validation == validateComponents(call.result.code)
         history    == StoreVersion(versionHistory, call.sessionId,
                                    call.userIntent, call.result, validation)
     IN  /\ versionHistory' = history
         /\ calls' = [calls EXCEPT ![id] =
                        [call EXCEPT !.response =
                           SuccessResponse(call.result, validation,
                                           ResponseVersion(history, call.sessionId))]]
  /\ clock' = clock + 1
  /\ UNCHANGED workingModel

\* ------------------------------------------------------------------ Spec
\* The server with any HTTP client: requests may overlap.
Intents == {Null, "", "make a card"}
ExistingCodes == {Null}
SessionIds == {Null, "s1"}

Init ==
  /\ versionHistory = <<>>
  /\ workingModel = Null
  /\ calls = <<>>
  /\ clock = 0
  /\ messages = <<>>
  /\ generatedCode = ""
  /\ isLoading = FALSE
  /\ versions = <<>>
  /\ currentVersion = Null
  /\ Component = Null
  /\ error = Null
  /\ effectPending = FALSE
  /\ boundary = "unmounted"
  /\ evaluated = Null
  /\ reached = {}
  /\ reply = NoReply

Next ==
  \/ \E i \in Intents, e \in ExistingCodes, s \in SessionIds :
       Len(calls) < MaxCalls /\ PostGenerate(i, e, s) /\ UNCHANGED clientVars
  \/ \E id \in 1..MaxCalls : ProbeOk(id) /\ UNCHANGED clientVars
  \/ \E id \in 1..MaxCalls : ProbeFail(id) /\ UNCHANGED clientVars
  \/ \E id \in 1..MaxCalls, detail \in LLMErrors :
       StageError(id, detail) /\ UNCHANGED clientVars
  \/ \E id \in 1..MaxCalls, text \in PlannerTexts :
       PlannerReturn(id, text) /\ UNCHANGED clientVars
  \/ \E id \in 1..MaxCalls, text \in GeneratorTexts :
       GeneratorReturn(id, text) /\ UNCHANGED clientVars
  \/ \E id \in 1..MaxCalls, text \in ExplainerTexts :
       ExplainerReturn(id, text) /\ UNCHANGED clientVars

Spec == Init /\ [][Next]_vars


\* -------------------------------------------------------------- SpecLong
\* One client that sends its requests for session "s1" one after the other,
\* long enough to fill the history past MAX_VERSIONS.  To keep the run
\* finite in practice the environment misbehaves rarely: at most one stage
\* call throws, and at most one generation answers the LoginBox text.
Idle == \A id \in 1..Len(calls) : calls[id].pc = "done"

NoFailureYet == \A id \in 1..Len(calls) : calls[id].response.status # 500

NoLoginBoxYet == \A id \in 1..Len(calls) : calls[id].code # "LOGINBOX_JSX"

NextLong ==
  \/ /\ Len(calls) < MaxLongCalls
     /\ Idle
     /\ PostGenerate("make a card", Null, "s1")
     /\ UNCHANGED clientVars
  \/ \E id \in 1..Len(calls) : ProbeOk(id) /\ UNCHANGED clientVars
  \/ \E id \in 1..Len(calls) : ProbeFail(id) /\ UNCHANGED clientVars
  \/ \E id \in 1..Len(calls) :
       NoFailureYet /\ StageError(id, FetchFailed) /\ UNCHANGED clientVars
  \/ \E id \in 1..Len(calls) : PlannerReturn(id, "{plan A}") /\ UNCHANGED clientVars
  \/ \E id \in 1..Len(calls), text \in GeneratorTexts :
       /\ text = "LOGINBOX_JSX" => NoLoginBoxYet
       /\ GeneratorReturn(id, text)
       /\ UNCHANGED clientVars
  \/ \E id \in 1..Len(calls), text \in ExplainerTexts :
       ExplainerReturn(id, text) /\ UNCHANGED clientVars

SpecLong == Init /\ [][NextLong]_vars

\* --------------------------------------- GET /api/version/:sessionId/:version
\* `${version}` (index.js:1398): a number as its decimal text
RECURSIVE DecimalText(_)
DecimalText(n) ==
  LET digit == <<"0","1","2","3","4","5","6","7","8","9">>[(n % 10) + 1]
  IN  IF n < 10 THEN <<digit>> ELSE Append(DecimalText(n \div 10), digit)

DigitValue(ch) ==
  CHOOSE d \in 0..9 : <<"0","1","2","3","4","5","6","7","8","9">>[d + 1] = ch

\* the value of the digits of t from position i on, after the value so far
RECURSIVE LeadingDigits(_, _, _)
LeadingDigits(t, i, sofar) ==
  IF i <= Len(t) /\ t[i] \in {"0","1","2","3","4","5","6","7","8","9"}
  THEN LeadingDigits(t, i + 1, 10 * sofar + DigitValue(t[i]))
  ELSE sofar

\* index.js:105 parseInt(version), for texts without sign, leading space or
\* 0x prefix: the value of the leading digits, NaN when there is none
parseInt(version) ==
  IF Len(version) >= 1 /\ version[1] \in {"0","1","2","3","4","5","6","7","8","9"}
  THEN [nan |-> FALSE, value |-> LeadingDigits(version, 1, 0)]
  ELSE [nan |-> TRUE]

\* index.js:102-114
getVersion(sessionId, version) ==
  LET history    == IF sessionId \in DOMAIN versionHistory
                    THEN versionHistory[sessionId] ELSE <<>>
      versionNum == parseInt(version)
      found      == {k \in 1..Len(history) :
                       ~versionNum.nan /\ history[k].version = versionNum.value}
  IN  IF found = {}
      THEN [status |-> 404, error |-> <<"Version not found">>]
      ELSE [status |-> 200,
            body   |-> history[CHOOSE k \in found : \A j \in found : k <= j]]

\* ------------------------------------------------------------ LivePreview
Digits == {"0","1","2","3","4","5","6","7","8","9"}
IsSpace(ch) == ch \in {" ", "\n", "\t"}
IsWord(ch) == ch \in (UpperCase \cup LowerCase \cup Digits \cup {"_"})

RECURSIVE SkipSpace(_, _)
SkipSpace(t, i) == IF i <= Len(t) /\ IsSpace(t[i]) THEN SkipSpace(t, i + 1) ELSE i

RECURSIVE SkipWord(_, _)
SkipWord(t, i) == IF i <= Len(t) /\ IsWord(t[i]) THEN SkipWord(t, i + 1) ELSE i

\* first position >= i of character ch in t, or 0
FirstIndex(t, i, ch) ==
  LET at == {k \in i..Len(t) : t[k] = ch}
  IN  IF at = {} THEN 0 ELSE CHOOSE k \in at : \A j \in at : k <= j

\* last position of character ch in t, or 0
LastIndex(t, ch) ==
  LET at == {k \in 1..Len(t) : t[k] = ch}
  IN  IF at = {} THEN 0 ELSE CHOOSE k \in at : \A j \in at : k >= j

FunctionKeyword == <<"f","u","n","c","t","i","o","n">>

\* LivePreview.jsx:30  /function\s+\w+\s*\([^)]*\)\s*{([\s\S]*)}/ tried at i
functionMatchAt(t, i) ==
  LET a == i + Len(FunctionKeyword)
      b == SkipSpace(t, a)
      c == SkipWord(t, b)
      d == SkipSpace(t, c)
      e == FirstIndex(t, d + 1, ")")
      f == SkipSpace(t, e + 1)
      g == LastIndex(t, "}")
  IN  IF /\ a - 1 <= Len(t)
         /\ SubSeq(t, i, a - 1) = FunctionKeyword
         /\ b > a
         /\ c > b
         /\ d <= Len(t)
         /\ t[d] = "("
         /\ e # 0
         /\ f <= Len(t)
         /\ t[f] = "{"
         /\ g > f
      THEN [matched |-> TRUE, body |-> SubSeq(t, f + 1, g - 1)]
      ELSE [matched |-> FALSE, body |-> <<>>]

\* LivePreview.jsx:25-30  processedCode.match(...).  The texts of Codes hold
\* no import or export statement, so processedCode is the code.
functionMatch(code) ==
  LET t  == SourceText(code)
      at == {i \in 1..Len(t) : functionMatchAt(t, i).matched}
  IN  IF at = {} THEN [matched |-> FALSE, body |-> <<>>]
      ELSE functionMatchAt(t, CHOOSE i \in at : \A j \in at : i <= j)

\* LivePreview.jsx:36-42: new Function parses the body as JavaScript.  JSX is
\* not JavaScript: the engine throws a SyntaxError on the two JSX texts.
ThrowsSyntaxError(code) == code \in {"CARD_JSX", "LOGINBOX_JSX"}

\* The names the function body uses and does not declare.
FreeIdentifiers(code) ==
  CASE code = "CARD_CE"   -> {"React", "Card"}
    [] code = "WINDOW_CE" -> {"window"}
    [] OTHER              -> {}

\* The body throws when it is run (throw 1).
ThrowsWhenRun(code) == code = "THROW_CE"

\* ComponentLibrary.jsx: Object.keys(ComponentLibrary)
ComponentLibraryKeys ==
  {"Button", "Card", "Input", "Table", "Modal", "Sidebar", "Navbar", "Chart"}

\* LivePreview.jsx:37-40: the parameters of the compiled function
paramNames == {"React", "useState", "useEffect"} \cup ComponentLibraryKeys

\* Properties of the browser's global object.
GlobalNames == {"window", "document", "localStorage"}

\* A function made by new Function closes over the global scope only: a free
\* name is a parameter, else a property of the global object, else a
\* ReferenceError.
Resolve(name) ==
  IF name \in paramNames THEN "parameter"
  ELSE IF name \in GlobalNames THEN "global"
  ELSE "ReferenceError"

RenderThrows(code) ==
  \/ ThrowsWhenRun(code)
  \/ \E name \in FreeIdentifiers(code) : Resolve(name) = "ReferenceError"

\* LivePreview.jsx:61-109: which JSX LivePreview returns
Branch(code, comp, err) ==
  IF Falsy(code) THEN "placeholder"
  ELSE IF err # Null THEN "error"
  ELSE IF comp # Null THEN "wrapper"
  ELSE "loading"

\* LivePreview.jsx:95-103 and 115-151: the ErrorBoundary after a render.  It
\* is mounted with hasError false, keeps its state while LivePreview returns
\* the wrapper, and renders its child only while hasError is false.
BoundaryAfter(code, comp, err, bnd) ==
  IF Branch(code, comp, err) # "wrapper" THEN "unmounted"
  ELSE IF bnd = "hasError" THEN "hasError"
  ELSE IF RenderThrows(comp) THEN "hasError"
  ELSE "ok"

\* The scopes the child's free names resolve in, when the child is rendered.
ReachedAfter(code, comp, err, bnd, before) ==
  IF Branch(code, comp, err) = "wrapper" /\ bnd # "hasError"
  THEN {[name |-> n, scope |-> Resolve(n)] : n \in FreeIdentifiers(comp)}
  ELSE before

\* What the preview panel shows.
Displayed ==
  CASE Branch(generatedCode, Component, error) = "wrapper" ->
         IF boundary = "hasError" THEN "Runtime Error" ELSE Component
    [] Branch(generatedCode, Component, error) = "error" -> "Render Error"
    [] Branch(generatedCode, Component, error) = "placeholder" -> "No UI Yet!"
    [] OTHER -> "Rendering..."

\* App passes a new code prop (setGeneratedCode): LivePreview renders with
\* the state it has; its effect is scheduled when the code changed.
SetGeneratedCode(code) ==
  /\ generatedCode' = code
  /\ effectPending' = (code # generatedCode)
  /\ boundary' = BoundaryAfter(code, Component, error, boundary)
  /\ reached' = ReachedAfter(code, Component, error, boundary, reached)
  /\ UNCHANGED <<Component, error, evaluated>>

\* LivePreview.jsx:13-59: the effect, and the render its setState calls cause
RunEffect ==
  /\ effectPending
  /\ effectPending' = FALSE
  /\ LET built == functionMatch(generatedCode).matched
                    /\ ~ThrowsSyntaxError(generatedCode)
         comp  == IF ~Falsy(generatedCode) /\ built THEN generatedCode ELSE Null
         err   == IF Falsy(generatedCode) \/ built THEN Null
                  ELSE IF functionMatch(generatedCode).matched
                  THEN "SyntaxError"
                  ELSE "Could not parse component function"
     IN  /\ Component' = comp
         /\ error' = err
         /\ evaluated' = IF ~Falsy(generatedCode) /\ functionMatch(generatedCode).matched
                         THEN generatedCode ELSE evaluated
         /\ boundary' = BoundaryAfter(generatedCode, comp, err, boundary)
         /\ reached' = ReachedAfter(generatedCode, comp, err, boundary, reached)
  /\ UNCHANGED <<serverVars, appVars, reply>>

\* -------------------------------------------------------------------- App
\* index.js:1283  'session_' + Date.now()
sessionId == "s1"

\* index.js:83-96 with the entries passed on whole
getHistoryWholeEntries(sid) ==
  LET history == IF sid \in DOMAIN versionHistory THEN versionHistory[sid] ELSE <<>>
  IN  [ sessionId |-> sid, versions |-> history ]

\* index.js:83-96  GET /api/history/:sessionId
getHistory(sid) ==
  LET history == IF sid \in DOMAIN versionHistory THEN versionHistory[sid] ELSE <<>>
  IN  [ sessionId |-> sid,
        versions  |-> [ k \in 1..Len(history) |->
                          [ version    |-> history[k].version,
                            userIntent |-> history[k].userIntent,
                            timestamp  |-> history[k].timestamp,
                            validation |-> history[k].validation ] ] ]

\* response.status and response.statusText as text
StatusCode(status) ==
  CASE status = 400 -> "400" [] status = 500 -> "500" [] OTHER -> "200"
StatusText(status) ==
  CASE status = 400 -> "Bad Request"
    [] status = 500 -> "Internal Server Error"
    [] OTHER -> "OK"

\* index.js:1312-1333  handleSendMessage up to the fetch; the request reaches
\* the server
Send(inputValue) ==
  /\ ~Falsy(inputValue)
  /\ ~isLoading
  /\ ~effectPending
  /\ Len(calls) < MaxAppCalls
  /\ messages' = Append(messages, [role |-> "user", content |-> <<inputValue>>])
  /\ isLoading' = TRUE
  /\ PostGenerate(inputValue,
                  IF Falsy(generatedCode) THEN Null ELSE generatedCode,
                  sessionId)
  /\ UNCHANGED <<generatedCode, versions, currentVersion, previewVars, reply>>

\* index.js:1335-1378  handleSendMessage from the response on
Receive ==
  /\ isLoading
  /\ ~effectPending
  /\ calls[Len(calls)].pc = "done"
  /\ LET data == calls[Len(calls)].response IN
       IF data.status # 200
       THEN /\ messages' = Append(messages,
                 [ role    |-> "error",
                   content |-> <<"Failed to generate UI: ", "Server error: ",
                                 StatusCode(data.status), " ",
                                 StatusText(data.status)>> ])
            /\ UNCHANGED <<generatedCode, versions, currentVersion, previewVars>>
       ELSE IF data.success
       THEN /\ messages' = Append(messages,
                 [ role       |-> "assistant",
                   content    |-> <<data.explanation>>,
                   plan       |-> data.plan,
                   validation |-> data.validation,
                   version    |-> data.version ])
            /\ SetGeneratedCode(data.code)
            /\ currentVersion' = data.version
            /\ versions' = getHistory(sessionId).versions
       ELSE /\ messages' = Append(messages,
                 [role |-> "error", content |-> <<"Error: ">> \o data.error])
            /\ UNCHANGED <<generatedCode, versions, currentVersion, previewVars>>
  /\ isLoading' = FALSE
  /\ UNCHANGED <<serverVars, reply>>

\* index.js:1381-1383  handleCodeEdit
Edit(newCode) ==
  /\ ~effectPending
  /\ ~isLoading
  /\ newCode # generatedCode
  /\ SetGeneratedCode(newCode)
  /\ UNCHANGED <<serverVars, messages, isLoading, versions, currentVersion, reply>>

RolledBack == SelectSeq(messages, LAMBDA msg : msg.role = "system")

\* index.js:1396-1414  handleRollback, for a version of the dropdown
Rollback(version) ==
  /\ ~effectPending
  /\ ~isLoading
  /\ Len(RolledBack) < MaxRollbacks
  /\ \E k \in 1..Len(versions) : versions[k].version = version
  /\ LET response == getVersion(sessionId, DecimalText(version)) IN
       /\ response.status = 200
       /\ SetGeneratedCode(response.body.code)
       /\ currentVersion' = version
       /\ messages' = Append(messages,
            [role |-> "system", content |-> <<"Rolled back to version ", version>>])
  /\ UNCHANGED <<serverVars, isLoading, versions, reply>>

\* The texts typed into the chat box and into the code editor.
InputValues == {"", "make a card"}
AppEditedCodes == {"", "CARD_CE"}
AppGeneratorTexts == {"LOGINBOX_JSX", "CARD_CE"}
AppLLMErrors == {FetchFailed}

NextApp ==
  \/ \E inputValue \in InputValues : Send(inputValue)
  \/ Receive
  \/ \E newCode \in AppEditedCodes : Edit(newCode)
  \/ \E version \in 1..MaxAppCalls : Rollback(version)
  \/ RunEffect
  \/ \E id \in 1..Len(calls) : ProbeOk(id) /\ UNCHANGED clientVars
  \/ \E id \in 1..Len(calls) : ProbeFail(id) /\ UNCHANGED clientVars
  \/ \E id \in 1..Len(calls), detail \in AppLLMErrors :
       StageError(id, detail) /\ UNCHANGED clientVars
  \/ \E id \in 1..Len(calls), text \in PlannerTexts :
       PlannerReturn(id, text) /\ UNCHANGED clientVars
  \/ \E id \in 1..Len(calls), text \in AppGeneratorTexts :
       GeneratorReturn(id, text) /\ UNCHANGED clientVars
  \/ \E id \in 1..Len(calls), text \in ExplainerTexts :
       ExplainerReturn(id, text) /\ UNCHANGED clientVars

SpecApp == Init /\ [][NextApp]_vars

\* ----------------------------------------------------------- SpecPreview
\* LivePreview alone: its code prop takes any text of Codes.
NextPreview ==
  \/ \E newCode \in Codes : Edit(newCode)
  \/ RunEffect

SpecPreview == Init /\ [][NextPreview]_vars

\* -------------------------------------------------- the read-only routes
\* index.js:120-129  POST /api/validate, without the check of code
postValidateNoCheck(code) ==
  [status |-> 200, body |-> validateComponents(code)]

\* index.js:120-129  POST /api/validate
postValidate(code) ==
  IF Falsy(code) THEN [status |-> 400, error |-> <<"code is required">>]
  ELSE [status |-> 200, body |-> validateComponents(code)]

PostValidate(code) ==
  /\ reply' = [route |-> "validate", code |-> code, response |-> postValidate(code)]
  /\ UNCHANGED <<serverVars, appVars, previewVars>>

\* index.js:83-96
GetHistory(sid) ==
  /\ reply' = [ route |-> "history", sessionId |-> sid,
                response |-> [status |-> 200, body |-> getHistory(sid)] ]
  /\ UNCHANGED <<serverVars, appVars, previewVars>>

\* index.js:102-114
GetVersion(sid, version) ==
  /\ reply' = [ route |-> "version", sessionId |-> sid, version |-> version,
                response |-> getVersion(sid, version) ]
  /\ UNCHANGED <<serverVars, appVars, previewVars>>

\* req.body.code of POST /api/validate
ValidateCodes == {Null, "", "CARD_JSX", "LOGINBOX_JSX", "CARD2_JSX", "NESTED_JSX"}
\* req.params.sessionId of the GET routes: "s2" never generates
ReadSessionIds == {"s1", "s2"}
\* req.params.version: 1, 2, 21, abc, 1abc
VersionTexts ==
  { <<"1">>, <<"2">>, <<"2","1">>, <<"a","b","c">>, <<"1","a","b","c">> }

\* -------------------------------------------------------------- SpecRead
\* One client of session "s1" that sends its requests one after the other:
\* generations, and between them requests to the three read-only routes.
\* The reply of a read is what the client holds until its next generation.
\* The model answers every call: the first model probed works and no stage
\* call throws; at most one generation answers the LoginBox text.
NextRead ==
  \/ /\ Len(calls) < MaxReadCalls
     /\ Idle
     /\ PostGenerate("make a card", Null, "s1")
     /\ reply' = NoReply
     /\ UNCHANGED <<appVars, previewVars>>
  \/ \E id \in 1..Len(calls) : ProbeOk(id) /\ UNCHANGED clientVars
  \/ \E id \in 1..Len(calls) : PlannerReturn(id, "{plan A}") /\ UNCHANGED clientVars
  \/ \E id \in 1..Len(calls), text \in GeneratorTexts :
       /\ text = "LOGINBOX_JSX" => NoLoginBoxYet
       /\ GeneratorReturn(id, text)
       /\ UNCHANGED clientVars
  \/ \E id \in 1..Len(calls), text \in ExplainerTexts :
       ExplainerReturn(id, text) /\ UNCHANGED clientVars
  \/ \E code \in ValidateCodes : Idle /\ PostValidate(code)
  \/ \E sid \in ReadSessionIds : Idle /\ GetHistory(sid)
  \/ \E sid \in ReadSessionIds, version \in VersionTexts :
       Idle /\ GetVersion(sid, version)

SpecRead == Init /\ [][NextRead]_vars

\* ============================================================ properties
CallIds == 1..Len(calls)

Succeeded(id) == calls[id].response.status = 200
StageOrder == <<"planner", "generator", "explainer">>

StoredEntries ==
  UNION { {versionHistory[s][k] : k \in 1..Len(versionHistory[s])} :
          s \in DOMAIN versionHistory }

\* C1: POST /api/generate never answers success with, and never stores, a
\* code that uses a component outside the eight library components: such a
\* generation ends in an error.
C1_OnlyLibraryComponentsSucceed ==
  /\ \A id \in CallIds :
       Succeeded(id) => validateComponents(calls[id].response.code).valid
  /\ \A entry \in StoredEntries : validateComponents(entry.code).valid

\* C2: within one generateUI call the stages run strictly in the order
\* planner, generator, explainer; the generator starts only after the
\* planner returned a plan and is given that plan; the explainer starts only
\* after the generator returned code; no two stages of a call are in
\* progress together.
C2_StagesInSequence ==
  \A id \in CallIds :
    LET call == calls[id] IN
    /\ Cardinality(call.active) <= 1
    /\ Len(call.invoked) <= Len(StageOrder)
    /\ \A k \in 1..Len(call.invoked) :
         /\ call.invoked[k].stage = StageOrder[k]
         /\ k >= 2 => /\ call.plan # Null
                      /\ call.invoked[k].plan = call.plan
                      /\ "planner" \notin call.active
         /\ k >= 3 => /\ call.code # Null
                      /\ call.invoked[k].code = call.code
                      /\ "generator" \notin call.active
    /\ call.active \subseteq
         (IF call.invoked = <<>> THEN {}
          ELSE {call.invoked[Len(call.invoked)].stage})

C2_Witness ==
  \E id \in CallIds :
    /\ Succeeded(id)
    /\ Len(calls[id].invoked) = 3
    /\ calls[id].invoked[2].plan = "planA"
    /\ calls[id].invoked[3].code = "LOGINBOX_JSX"

\* The stage whose failure a failure result reports, from the prefix its
\* catch block puts before the message; getWorkingModel's own error has none.
FailedStages(call) ==
  {stage \in Stages : call.result.fullError[1] = StagePrefix(stage)[1]}

\* C3: each stage is invoked at most once per generateUI call and a failed
\* stage is never retried: after a failure no later stage is invoked,
\* generateUI returns success:false with an error and without plan, code or
\* explanation, the route answers 500, and nothing is appended to the
\* version history.
C3_NoRetryOnFailure ==
  /\ \A id \in CallIds :
       LET call == calls[id] IN
       /\ \A j, k \in 1..Len(call.invoked) :
            call.invoked[j].stage = call.invoked[k].stage => j = k
       /\ (call.pc = "done" /\ call.response.status \notin {200, 400}) =>
            /\ call.active = {}
            /\ DOMAIN call.result = {"success", "error", "fullError"}
            /\ call.result.success = FALSE
            /\ call.response = [status |-> 500, error |-> call.result.error]
            /\ call.result.error = errorMessage(call.result.fullError)
            /\ \A stage \in FailedStages(call) :
                 call.invoked[Len(call.invoked)].stage = stage
  /\ \A s \in SessionIds \ {Null} :
       (IF s \in DOMAIN versionHistory THEN Len(versionHistory[s]) ELSE 0)
         = Cardinality({id \in CallIds : Succeeded(id) /\ calls[id].sessionId = s})

C3_Witness ==
  \E id, other \in CallIds :
    /\ calls[id].response.status = 500
    /\ calls[id].sessionId = "s1"
    /\ calls[id].result.fullError = StagePrefix("generator") \o QuotaError
    /\ Succeeded(other)
    /\ calls[other].sessionId = "s1"

\* C6: two POST /api/generate requests with the same userIntent and the same
\* existingCode produce the same code.
C6_SameInputSameCode ==
  \A i, j \in CallIds :
    ( /\ Succeeded(i) /\ Succeeded(j)
      /\ calls[i].userIntent = calls[j].userIntent
      /\ calls[i].existingCode = calls[j].existingCode )
    => calls[i].response.code = calls[j].response.code

C10_Answered400 ==
  \A id \in CallIds :
    Falsy(calls[id].userIntent) =>
      /\ calls[id].response = [status |-> 400, error |-> <<"userIntent is required">>]
      /\ calls[id].invoked = <<>>
      /\ calls[id].active = {}
      /\ calls[id].probe = 0
      /\ calls[id].pc = "done"

C10_NoEffect ==
  ( /\ Len(calls') = Len(calls) + 1
    /\ Falsy(calls'[Len(calls')].userIntent) )
  => /\ versionHistory' = versionHistory
     /\ workingModel' = workingModel
     /\ SubSeq(calls', 1, Len(calls)) = calls

\* C10: POST /api/generate with a missing or empty userIntent answers 400
\* 'userIntent is required' without invoking any pipeline stage or model call
\* and without changing the history of any session.
C10_MissingIntentRejected == [](C10_Answered400) /\ [][C10_NoEffect]_vars

\* An empty or missing userIntent arrives after a generation of the same
\* session was stored.
C10_Witness ==
  \E id, other \in CallIds :
    /\ other < id
    /\ Succeeded(other)
    /\ calls[other].sessionId = "s1"
    /\ calls[id].sessionId = "s1"
    /\ Falsy(calls[id].userIntent)
    /\ calls[id].response.status = 400


\* C5: every version number that a successful POST /api/generate returned
\* for a session can later be fetched with GET /api/version/:sessionId/:version
\* and the code returned is the code that request generated, after any
\* number of further generations.
C5_ReturnedVersionsFetchable ==
  \A id \in CallIds :
    (Succeeded(id) /\ ~Falsy(calls[id].sessionId)) =>
      LET got == getVersion(calls[id].sessionId,
                            DecimalText(calls[id].response.version))
      IN  /\ got.status = 200
          /\ got.body.code = calls[id].response.code


\* The codes the server has checked against the whitelist and found valid.
\* validateComponents runs in POST /api/generate (and in POST /api/validate,
\* which the App never calls).
ValidatedCodes ==
  {calls[id].response.code :
     id \in {k \in CallIds : Succeeded(k) /\ calls[k].response.validation.valid}}

\* C4: the live preview evaluates a code string only if that exact string
\* has been checked against the component whitelist and found valid, whether
\* it comes from a generation, a rollback or a manual edit.
C4_ValidatedBeforeEvaluated ==
  evaluated # Null => evaluated \in ValidatedCodes

\* C7: the function LivePreview compiles from the code can reach only the
\* symbols injected as its parameters; it has no access to window, document
\* or localStorage.
C7_OnlyInjectedSymbols ==
  \A r \in reached : r.scope = "parameter" /\ r.name \notin GlobalNames

Builds(code) ==
  /\ ~Falsy(code)
  /\ functionMatch(code).matched
  /\ ~ThrowsSyntaxError(code)

\* C8: whenever the code passed to LivePreview changes to a code whose
\* component builds and renders without throwing, the preview comes to
\* display that component, also when the component displayed before had
\* crashed and was caught by the ErrorBoundary.  Stated for the state the
\* preview settles in, once the effect for the code has run.
C8_PreviewFollowsCode ==
  (~effectPending /\ Builds(generatedCode) /\ ~RenderThrows(generatedCode))
    => Displayed = generatedCode

\* The chat messages that answer a request, in order: the k-th answers the
\* k-th request of the App, the only client in SpecApp.
ResponseMessages ==
  SelectSeq(messages, LAMBDA msg : msg.role \in {"assistant", "error"})

Contains(s, sub) ==
  \E i \in 0..(Len(s) - Len(sub)) : SubSeq(s, i + 1, i + Len(sub)) = sub

\* C9: when a generation fails on the server, the error text POST
\* /api/generate puts in its response body is the text the client shows in
\* the chat as the error message for that request.
C9_ServerErrorShown ==
  \A k \in 1..Len(ResponseMessages) :
    calls[k].response.status = 500 =>
      /\ ResponseMessages[k].role = "error"
      /\ Contains(ResponseMessages[k].content, calls[k].response.error)

\* ------------------------------------------------ the read-only routes
C11_Answer ==
  reply.route = "validate" =>
    IF Falsy(reply.code)
    THEN reply.response = [status |-> 400, error |-> <<"code is required">>]
    ELSE /\ reply.response.status = 200
         /\ reply.response.body = validateComponents(reply.code)
         /\ \A id \in CallIds :
              (Succeeded(id) /\ calls[id].response.code = reply.code)
                => calls[id].response.validation = reply.response.body
         /\ \A s \in DOMAIN versionHistory :
              \A k \in 1..Len(versionHistory[s]) :
                versionHistory[s][k].code = reply.code
                  => versionHistory[s][k].validation = reply.response.body

C11_HistoryKept ==
  reply'.route = "validate" => versionHistory' = versionHistory

\* C11: POST /api/validate answers 400 'code is required' when code is
\* missing or empty; otherwise it answers exactly validateComponents(code),
\* the validation that a generation producing that code stored in the
\* history and returned; it never changes the version history.
C11_ValidateRoute == [](C11_Answer) /\ [][C11_HistoryKept]_vars

\* The LoginBox text is validated after a generation that produced it was
\* stored, and is answered as invalid.
C11_Witness ==
  /\ reply.route = "validate"
  /\ reply.code = "LOGINBOX_JSX"
  /\ reply.response.status = 200
  /\ ~reply.response.body.valid
  /\ "s1" \in DOMAIN versionHistory
  /\ \E k \in 1..Len(versionHistory["s1"]) :
       versionHistory["s1"][k].code = "LOGINBOX_JSX"

\* A JSX element name continues over letters, digits, _ and $, and over the
\* - . : of hyphenated, member and namespaced names.
IsJSXNameChar(ch) ==
  ch \in (UpperCase \cup LowerCase \cup Digits \cup {"_", "$", "-", ".", ":"})

RECURSIVE JSXName(_, _)
JSXName(t, i) ==
  IF i <= Len(t) /\ IsJSXNameChar(t[i])
  THEN <<t[i]>> \o JSXName(t, i + 1)
  ELSE <<>>

\* the names of the opening tags of t, from i on, that start with an
\* upper-case letter
RECURSIVE UpperCaseTagNames(_, _)
UpperCaseTagNames(t, i) ==
  IF i > Len(t) THEN <<>>
  ELSE IF t[i] = "<" /\ i + 1 <= Len(t) /\ t[i + 1] \in UpperCase
       THEN LET name == JSXName(t, i + 1)
            IN  <<name>> \o UpperCaseTagNames(t, i + 1 + Len(name))
       ELSE UpperCaseTagNames(t, i + 1)

Range(seq) == {seq[i] : i \in 1..Len(seq)}

\* C12: validateComponents(code) returns valid = true exactly when every
\* JSX tag name in code that starts with an upper-case letter is one of the
\* eight library names; usedComponents is the duplicate-free list of those
\* tag names in order of first occurrence, invalidComponents contains
\* exactly the used names that are not in the library, and valid holds if
\* and only if invalidComponents is empty.
C12_ValidExactlyLibraryTags ==
  (reply.route = "validate" /\ reply.response.status = 200) =>
    LET names   == UpperCaseTagNames(SourceText(reply.code), 1)
        verdict == reply.response.body
    IN  /\ verdict.valid = (Range(names) \subseteq Range(allowedComponents))
        /\ verdict.usedComponents = Dedup(names)
        /\ Range(verdict.invalidComponents)
             = Range(names) \ Range(allowedComponents)
        /\ verdict.valid = (verdict.invalidComponents = <<>>)

\* the entries stored for a session, none for a session the Map has no key for
Stored(sid) == IF sid \in DOMAIN versionHistory THEN versionHistory[sid] ELSE <<>>

C13_Summaries ==
  reply.route = "history" =>
    LET stored == Stored(reply.sessionId)
        listed == reply.response.body.versions
    IN  /\ reply.response.status = 200
        /\ reply.response.body.sessionId = reply.sessionId
        /\ Len(listed) = Len(stored)
        /\ \A k \in 1..Len(stored) :
             /\ DOMAIN listed[k] = {"version", "userIntent", "timestamp", "validation"}
             /\ listed[k].version = stored[k].version
             /\ listed[k].userIntent = stored[k].userIntent
             /\ listed[k].timestamp = stored[k].timestamp
             /\ listed[k].validation = stored[k].validation

C13_NothingChanged ==
  reply'.route = "history" =>
    /\ versionHistory' = versionHistory
    /\ DOMAIN versionHistory' = DOMAIN versionHistory
    /\ UNCHANGED <<workingModel, calls, clock>>

\* C13: GET /api/history/:sessionId returns, in insertion order, one summary
\* (version, userIntent, timestamp, validation, never the code) for each
\* entry currently stored for that session and an empty list for a session
\* with no entries; it changes no state and creates no entry for an unknown
\* session.
C13_HistoryRoute == [](C13_Summaries) /\ [][C13_NothingChanged]_vars

\* The history of "s1" is read when it is full and its oldest entry has
\* been evicted.
C13_Witness ==
  /\ reply.route = "history"
  /\ reply.sessionId = "s1"
  /\ Len(reply.response.body.versions) = MAX_VERSIONS
  /\ reply.response.body.versions[1].version = 2

\* The history of the session that never generated is read after "s1" has
\* stored an entry.
C13_WitnessUnknown ==
  /\ reply.route = "history"
  /\ reply.sessionId = "s2"
  /\ reply.response.body.versions = <<>>
  /\ Stored("s1") # <<>>

Generations(sid) ==
  {id \in CallIds : calls[id].sessionId = sid /\ Succeeded(id)}

\* how many generations of the session were answered after this one
Newer(sid, id) ==
  Cardinality({other \in Generations(sid) :
                 calls[other].response.timestamp > calls[id].response.timestamp})

C15_MostRecent ==
  \A sid \in DOMAIN versionHistory :
    LET stored == versionHistory[sid]
        gens   == Generations(sid)
    IN  /\ Len(stored) <= 20
        /\ Len(stored) = IF Cardinality(gens) < 20 THEN Cardinality(gens) ELSE 20
        /\ \A id \in gens :
             LET newer == Newer(sid, id)
                 entry == stored[Len(stored) - newer]
             IN  newer < 20 =>
                   /\ entry.code = calls[id].response.code
                   /\ entry.timestamp = calls[id].response.timestamp
                   /\ entry.userIntent = calls[id].userIntent

C15_EvictsOldest ==
  \A sid \in DOMAIN versionHistory :
    (versionHistory'[sid] # versionHistory[sid] /\ Len(versionHistory[sid]) = 20)
      => /\ Len(versionHistory'[sid]) = 20
         /\ SubSeq(versionHistory'[sid], 1, 19) = Tail(versionHistory[sid])

\* C15: for every session the stored history holds at most 20 entries, and
\* they are the most recent successful generations of that session in the
\* order they were stored: the 21st and every later generation evicts
\* exactly the oldest entry.
C15_LastTwentyKept == [](C15_MostRecent) /\ [][C15_EvictsOldest]_vars

\* More generations of "s1" succeeded than the history holds.
C15_Witness ==
  /\ Len(Stored("s1")) = 20
  /\ Cardinality(Generations("s1")) > 20
  /\ \E id \in Generations("s1") :
       \A k \in 1..20 : Stored("s1")[k].timestamp # calls[id].response.timestamp

\* C16: within one session's stored history the version fields are pairwise
\* distinct and strictly increasing in list order, after any number of
\* generations, including more than 20.
C16_VersionsIncreasing ==
  \A sid \in DOMAIN versionHistory :
    \A j, k \in 1..Len(versionHistory[sid]) :
      j < k => versionHistory[sid][j].version < versionHistory[sid][k].version

====
